---- MODULE Spec2Model ----
(***************************************************************************)
(* Wallet ledger and marketplace settlement of the kids-app backend.       *)
(*                                                                         *)
(* The state is the content of the document store (collections "users",   *)
(* "books", "bookRequests", "teachers", "teacher") and the position of     *)
(* every HTTP request in flight.  Every await of a handler is a point at   *)
(* which another request may run, so a handler is a chain of steps, one    *)
(* per store call.  A store transaction is a snapshot read followed by a   *)
(* conditional commit: a commit whose read set was written in between is   *)
(* re-run from its reads.                                                  *)
(***************************************************************************)
EXTENDS Integers, FiniteSets, Sequences

\* ------------------------------------------------------------------ bounds
MaxRequests == 2
MaxConversions == 2
MaxScore == 2
MaxAttempts == 5
MaxTopups == 2
MaxDay == 3
MaxLikes == 3
MaxPointReqs == 2

\* --------------------------------------------------------------- constants
COST == 5
StartingGrant == 30

Users == {"u1", "u2"}
Procs == {"p1", "p2"}
\* "l1" is a posted listing, "nx" an id no document has.
ListingIds == {"l1", "nx"}
Collections == {"books", "bookRequests", "teachers", "teacher"}
\* "noEmail" is a token the verifier accepts whose claims carry no email; it is
\* sent to the one route that tests for the email.
Tokens == {"valid", "invalid", "missing", "noEmail"}
\* Balances a wallet of the store may hold when the server starts.
InitBalances == {3, 30}
\* Amounts (kobo) the payment gateway may report for a reference.
PaidAmounts == {100000, 200000, 400000, 1000}
Deltas == {1, 6}

WalletRoutes == {"acceptBookWithWallet", "fulfillRequestWithWallet",
                 "acceptRequestWithWallet"}
\* Routes behind the verifyIdToken middleware.
MiddlewareRoutes == WalletRoutes \cup {"acceptBook", "acceptRequest", "walletTopup"}
Routes == MiddlewareRoutes \cup {"updatePoints", "getWallet"}
ListingRoutes == WalletRoutes \cup {"acceptBook", "acceptRequest"}

VARIABLES
  users,      \* collection "users": uid -> wallet document
  listings,   \* collection name -> listing id -> listing document
  req,        \* request slot -> the request it serves and its position
  started,    \* number of requests accepted so far
  paidBy,     \* history: collection -> users whose debit committed for "l1"
  initDone,   \* history: users for whom a call of initUser has returned
  grants      \* history: uid -> number of times initUser wrote the grant

vars == <<users, listings, req, started, paidBy, initDone, grants>>

\* The conversion routes read and write the documents of "users"; their
\* requests have slots of their own.  The leaderboard is checked in a
\* specification of its own, over the part of the store it reads.
VARIABLES
  creq,       \* conversion request slot -> the request it serves
  board,      \* collection "users" as the leaderboard sees it
  lbResp      \* the last response of GET /api/leaderboard

\* The retry of a transaction, the payment references of /wallet/topup, the
\* points of /api/update-points and the likes of a post, each checked in a
\* specification of its own.
VARIABLES
  rtx,        \* a settlement request under contention and the documents it reads
  tbal,       \* coinBalance of each user as /wallet/topup sees it
  treq,       \* top-up request slot -> the request it serves
  pdoc,       \* a document of "users" as /api/update-points sees it
  today,      \* the day (UTC) of the server's clock, as a day number
  presp,      \* the requests to /api/update-points, by order of arrival
  likes,      \* the likes list of a post
  lreq,       \* like request slot -> the request it serves
  toggles     \* history: user -> toggle requests answered with success

convVars == <<creq>>
lbVars == <<board, lbResp>>
retryVars == <<rtx>>
topupVars == <<tbal, treq>>
pointsVars == <<pdoc, today, presp>>
likeVars == <<likes, lreq, toggles>>
moreVars == <<retryVars, topupVars, pointsVars, likeVars>>
others == <<convVars, lbVars, moreVars>>
frameVars == <<vars, convVars>>

\* The state of a part of the store that a specification leaves out.
LedgerOff ==
  /\ users = <<>> /\ listings = <<>> /\ req = <<>> /\ started = 0
  /\ paidBy = <<>> /\ initDone = {} /\ grants = <<>>
ConvOff == creq = <<>>
LbOff == board = <<>> /\ lbResp = <<>>
RetryOff == rtx = <<>>
TopupOff == tbal = <<>> /\ treq = <<>>
PointsOff == pdoc = <<>> /\ today = 0 /\ presp = <<>>
LikeOff == likes = <<>> /\ lreq = <<>> /\ toggles = <<>>
MoreOff == RetryOff /\ TopupOff /\ PointsOff /\ LikeOff
OthersIdle == ConvOff /\ LbOff /\ MoreOff

\* ------------------------------------------------------------ documents
\* A document of "users".  hasCoin tells whether the field coinBalance is
\* present; gqBalance is read as gqBalance || 0, so an absent field is the
\* number 0.
NoWallet == [exists |-> FALSE, hasCoin |-> FALSE, coinBalance |-> 0,
             role |-> "absent", isVerified |-> "absent", userPoints |-> 0,
             gqBalance |-> 0]

Wallet(b) == [exists |-> TRUE, hasCoin |-> TRUE, coinBalance |-> b,
              role |-> "user", isVerified |-> "false", userPoints |-> 0,
              gqBalance |-> 0]

NoListing == [exists |-> FALSE, status |-> "absent", acceptedByEmail |-> "none",
              fulfilledByEmail |-> "none", acceptedBy |-> "none",
              studentEmail |-> "none"]

\* The document a posting route adds to collection c: /requestTeacher stores
\* the studentEmail of the body and posts nothing without it; the documents of
\* "books" and "bookRequests" have no such field.
Posted(c, st) ==
  [NoListing EXCEPT !.exists = TRUE, !.status = st,
                    !.studentEmail = IF c = "teachers" THEN "student" ELSE "none"]

\* req.user.email of the decoded token: one address per uid.
Email(u) == u

\* userData.coinBalance || 0
CoinOrZero(doc) == IF doc.hasCoin THEN doc.coinBalance ELSE 0

Idle == [pc |-> "idle", route |-> "none", uid |-> "none", lid |-> "none",
         token |-> "none", newBalance |-> 0, stale |-> FALSE, resp |-> "none",
         afterInit |-> FALSE, eligible |-> FALSE, paid |-> 0]

\* The server has just started: the listings are posted and no request has
\* arrived.
LedgerIdle ==
  /\ listings = [c \in Collections |-> [l \in ListingIds |->
        IF l = "l1" /\ c = "books" THEN Posted(c, "available")
        ELSE IF l = "l1" /\ c \in {"bookRequests", "teachers"} THEN Posted(c, "pending")
        ELSE NoListing]]
  /\ req = [p \in Procs |-> Idle]
  /\ started = 0
  /\ paidBy = [c \in Collections |-> {}]
  /\ initDone = {}
  /\ grants = [u \in Users |-> 0]

Init ==
  /\ users \in [Users -> {NoWallet} \cup {Wallet(b) : b \in InitBalances}]
  /\ LedgerIdle
  /\ OthersIdle

\* ------------------------------------------------------------ route table
\* Every listing route reading and writing the collection "books".
CollAlwaysBooks(route) == "books"

\* The collection a listing route reads and writes.
Coll(route) ==
  IF route \in {"acceptBookWithWallet", "acceptBook"} THEN "books"
  ELSE IF route = "fulfillRequestWithWallet" THEN "bookRequests"
  ELSE IF route = "acceptRequestWithWallet" THEN "teachers"
  ELSE "teacher"

\* The status value a wallet route tests for and writes.
Terminal(route) == IF route = "acceptBookWithWallet" THEN "accepted" ELSE "fulfilled"

TerminalStatuses == {"accepted", "fulfilled"}

\* -------------------------------------------------------------- initUser
\* The write of initUser made whether or not the document exists.
NeedsInitAlways(doc) == TRUE

\* if (!snap.exists)
NeedsInit(doc) == ~doc.exists

\* userRef.set({email, coinBalance: 30, createdAt, role, isVerified}, {merge: true})
InitUserDoc(doc) ==
  [doc EXCEPT !.exists = TRUE, !.hasCoin = TRUE, !.coinBalance = StartingGrant,
              !.role = "user", !.isVerified = "false"]

\* ------------------------------------------------- settlement transaction
\* The settlement without its balance check.
HasFundsUnchecked(doc) == TRUE

\* (userData.coinBalance || 0) < COST, negated
HasFunds(doc) == ~(CoinOrZero(doc) < COST)

\* The body of the transaction of a wallet route, run on the documents it
\* read: the error it throws ("none" when it queues its two updates) and the
\* balance it computes.
Body(route, userDoc, listDoc) ==
  LET first == IF route = "acceptBookWithWallet"
               THEN IF ~userDoc.exists THEN "walletNotFound"
                    ELSE IF ~listDoc.exists THEN "listingNotFound" ELSE "none"
               ELSE IF ~listDoc.exists THEN "listingNotFound"
                    ELSE IF ~userDoc.exists THEN "walletNotFound" ELSE "none"
      err == IF first # "none" THEN first
             ELSE IF ~HasFunds(userDoc) THEN "insufficient"
             ELSE IF listDoc.status = Terminal(route) THEN "alreadySettled"
             ELSE "none"
  IN [err |-> err, newBalance |-> userDoc.coinBalance - COST]

\* t.update(listingRef, {status, acceptedByEmail | fulfilledByEmail, ...Phone, ...At})
MarkSettled(route, doc, email) ==
  IF route = "acceptBookWithWallet"
  THEN [doc EXCEPT !.status = "accepted", !.acceptedByEmail = email]
  ELSE [doc EXCEPT !.status = "fulfilled", !.fulfilledByEmail = email]

\* bookRef.update / requestRef.update of the routes that take no payment.
DirectAccept(route, doc, uid) ==
  IF route = "acceptBook"
  THEN [doc EXCEPT !.status = "accepted", !.acceptedByEmail = Email(uid)]
  ELSE [doc EXCEPT !.status = "accepted", !.acceptedBy = uid]

\* ------------------------------------------------------------- top-up
GatewayResults ==
  {[status |-> "failed", amount |-> 0]} \cup
  {[status |-> "success", amount |-> a] : a \in PaidAmounts}

\* A grant proportional to the amount paid instead of the table.
CoinsPerThousand(amount) == amount \div 1000

\* Amount -> Coins mapping; 0 stands for the rejected amounts.
Coins(amount) ==
  IF amount = 100000 THEN 100
  ELSE IF amount = 200000 THEN 250
  ELSE IF amount = 400000 THEN 500
  ELSE 0

\* FieldValue.increment(n) on coinBalance: an absent field counts as 0.
IncrementCoin(doc, n) ==
  [doc EXCEPT !.hasCoin = TRUE, !.coinBalance = CoinOrZero(doc) + n]

\* ------------------------------------------------------------- requests
\* The request slots after slot p moved to r and the documents wu (users) and
\* wl (<<collection, id>>) were written: a transaction that read one of them
\* and has not committed will find its commit refused.
ReqAfterWrite(p, r, wu, wl) ==
  [q \in Procs |->
     IF q = p THEN r
     ELSE IF /\ req[q].pc = "commit"
             /\ \/ req[q].uid \in wu
                \/ <<Coll(req[q].route), req[q].lid>> \in wl
          THEN [req[q] EXCEPT !.stale = TRUE]
          ELSE req[q]]

\* The conversion request slots after the documents wu of "users" were
\* written: a conversion that read one of them and has not committed will find
\* its commit refused.
ConvAfterWrite(wu) ==
  [k \in DOMAIN creq |->
     IF creq[k].pc = "commit" /\ creq[k].uid \in wu
     THEN [creq[k] EXCEPT !.stale = TRUE]
     ELSE creq[k]]

\* The response sent.  The slot keeps the answer until it is taken again; of a
\* settlement request it also keeps who asked for which listing.
Finish(r, code) ==
  IF r.route \in WalletRoutes
  THEN [r EXCEPT !.pc = "done", !.resp = code, !.token = "none", !.stale = FALSE,
                 !.afterInit = FALSE]
  ELSE [Idle EXCEPT !.pc = "done", !.resp = code, !.newBalance = r.newBalance,
                    !.paid = r.paid]

IsOpen(route, lid) ==
  /\ lid \in ListingIds
  /\ listings[Coll(route)][lid].exists
  /\ listings[Coll(route)][lid].status # Terminal(route)

\* The server takes the first free slot for a request.
Before(q, p) == q = "p1" /\ p = "p2"

\* A client sends a request; the slot serves it from its first await on.  Only
\* a valid token names a user, and only a request that gets past its token
\* check reads the listing id of its path.
Start(p) ==
  /\ req[p].pc \in {"idle", "done"}
  /\ \A q \in Procs : Before(q, p) => req[q].pc \notin {"idle", "done"}
  /\ started < MaxRequests
  /\ \E route \in Routes, tok \in Tokens :
       \E u \in IF tok \in {"valid", "noEmail"} THEN Users ELSE {"none"} :
         \E l \in IF tok = "valid" /\ route \in ListingRoutes THEN ListingIds
                  ELSE IF tok = "noEmail" THEN {"l1"}
                  ELSE {"none"} :
           /\ tok = "noEmail" => route = "acceptRequest"
           /\ req' = [req EXCEPT ![p] =
             [Idle EXCEPT !.pc = IF route \in MiddlewareRoutes THEN "verify" ELSE "handler",
                          !.route = route, !.uid = u, !.token = tok, !.lid = l,
                          !.afterInit = (u \in initDone),
                          !.eligible = /\ tok = "valid"
                                       /\ route \in WalletRoutes
                                       /\ IsOpen(route, l)
                                       /\ HasFunds(users[u])]]
  /\ started' = started + 1
  /\ UNCHANGED <<users, listings, paidBy, initDone, grants, others>>

\* verifyIdToken up to the read of initUser.
VerifyIdToken(p) ==
  /\ req[p].pc = "verify"
  /\ IF req[p].token \in {"invalid", "missing"}
     THEN /\ req' = [req EXCEPT ![p] = Finish(@, "401")]
          /\ UNCHANGED initDone
     ELSE IF NeedsInit(users[req[p].uid])
     THEN /\ req' = [req EXCEPT ![p].pc = "initSet"]
          /\ UNCHANGED initDone
     ELSE /\ req' = [req EXCEPT ![p].pc = "handler"]
          /\ initDone' = initDone \cup {req[p].uid}
  /\ UNCHANGED <<users, listings, started, paidBy, grants, others>>

\* The write of initUser, then next().
InitUserSet(p) ==
  /\ req[p].pc = "initSet"
  /\ users' = [users EXCEPT ![req[p].uid] = InitUserDoc(@)]
  /\ req' = ReqAfterWrite(p, [req[p] EXCEPT !.pc = "handler"], {req[p].uid}, {})
  /\ initDone' = initDone \cup {req[p].uid}
  /\ grants' = [grants EXCEPT ![req[p].uid] = @ + 1]
  /\ creq' = ConvAfterWrite({req[p].uid})
  /\ UNCHANGED <<listings, started, paidBy, lbVars, moreVars>>

\* TxnRead with the debit written before the checks of the body.
TxnReadDebitFirst(p) ==
  /\ req[p].pc = "handler"
  /\ req[p].route \in WalletRoutes
  /\ LET body == Body(req[p].route, users[req[p].uid],
                      listings[Coll(req[p].route)][req[p].lid])
     IN /\ req' = [req EXCEPT ![p] =
             IF body.err # "none"
             THEN Finish(@, body.err)
             ELSE [@ EXCEPT !.pc = "commit", !.newBalance = body.newBalance,
                            !.stale = FALSE]]
        /\ users' = IF body.err \in {"insufficient", "alreadySettled"}
                    THEN [users EXCEPT ![req[p].uid].coinBalance = body.newBalance]
                    ELSE users
        /\ creq' = ConvAfterWrite(IF body.err \in {"insufficient", "alreadySettled"}
                                  THEN {req[p].uid} ELSE {})
  /\ UNCHANGED <<listings, started, paidBy, initDone, grants, lbVars, moreVars>>

\* firestore.runTransaction: the two reads and the body of a wallet route.  A
\* throw of the body abandons the transaction and is answered with status 400.
TxnRead(p) ==
  /\ req[p].pc = "handler"
  /\ req[p].route \in WalletRoutes
  /\ LET body == Body(req[p].route, users[req[p].uid],
                      listings[Coll(req[p].route)][req[p].lid])
     IN req' = [req EXCEPT ![p] =
          IF body.err # "none"
          THEN Finish(@, body.err)
          ELSE [@ EXCEPT !.pc = "commit", !.newBalance = body.newBalance,
                         !.stale = FALSE]]
  /\ UNCHANGED <<users, listings, started, paidBy, initDone, grants, others>>

\* The commit of the two queued updates, accepted because no document the
\* transaction read was written since.
TxnCommit(p) ==
  /\ req[p].pc = "commit"
  /\ ~req[p].stale
  /\ LET u == req[p].uid
         c == Coll(req[p].route)
         l == req[p].lid
     IN /\ users' = [users EXCEPT ![u].coinBalance = req[p].newBalance]
        /\ listings' = [listings EXCEPT ![c][l] = MarkSettled(req[p].route, @, Email(u))]
        /\ paidBy' = [paidBy EXCEPT ![c] = @ \cup {u}]
        /\ req' = ReqAfterWrite(p, [req[p] EXCEPT !.pc = "notify"], {u}, {<<c, l>>})
        /\ creq' = ConvAfterWrite({u})
  /\ UNCHANGED <<started, initDone, grants, lbVars, moreVars>>

\* The commit refused: the store runs the body again from its reads.
TxnRetry(p) ==
  /\ req[p].pc = "commit"
  /\ req[p].stale
  /\ req' = [req EXCEPT ![p] = [@ EXCEPT !.pc = "handler", !.stale = FALSE]]
  /\ UNCHANGED <<users, listings, started, paidBy, initDone, grants, others>>

\* The awaited sendNotification calls and the response after them: a throw of
\* the mailer reaches the catch of the handler.  /acceptRequestWithWallet
\* sends nothing for a request without studentEmail.
Notify(p) ==
  /\ req[p].pc = "notify"
  /\ \E sent \in IF /\ req[p].route = "acceptRequestWithWallet"
                     /\ listings["teachers"][req[p].lid].studentEmail = "none"
                  THEN {TRUE} ELSE BOOLEAN :
       req' = [req EXCEPT ![p] = Finish(@, IF sent THEN "ok" ELSE "mailError")]
  /\ UNCHANGED <<users, listings, started, paidBy, initDone, grants, others>>

\* /acceptBook and PUT /acceptRequest: the plain read of the listing.
PlainGet(p) ==
  /\ req[p].pc = "handler"
  /\ req[p].route \in {"acceptBook", "acceptRequest"}
  /\ req' = [req EXCEPT ![p] =
       IF req[p].route = "acceptRequest" /\ req[p].token = "noEmail"
       THEN Finish(@, "401")
       ELSE IF ~listings[Coll(req[p].route)][req[p].lid].exists
       THEN Finish(@, "404")
       ELSE IF /\ req[p].route = "acceptRequest"
               /\ listings[Coll(req[p].route)][req[p].lid].studentEmail = "none"
       THEN Finish(@, "studentEmailMissing")
       ELSE [@ EXCEPT !.pc = "update"]]
  /\ UNCHANGED <<users, listings, started, paidBy, initDone, grants, others>>

\* /acceptBook and PUT /acceptRequest: the plain update of the listing.
PlainUpdate(p) ==
  /\ req[p].pc = "update"
  /\ LET c == Coll(req[p].route)
         l == req[p].lid
     IN /\ listings' = [listings EXCEPT ![c][l] = DirectAccept(req[p].route, @, req[p].uid)]
        /\ req' = ReqAfterWrite(p, [req[p] EXCEPT !.pc = "notify"], {}, {<<c, l>>})
  /\ UNCHANGED <<users, started, paidBy, initDone, grants, others>>

\* /wallet/topup: the gateway's answer, the amount table and the increment.
\* The slot keeps the amount the gateway reported until the response is sent.
TopupCredit(p) ==
  /\ req[p].pc = "handler"
  /\ req[p].route = "walletTopup"
  /\ \E g \in GatewayResults :
       IF g.status # "success"
       THEN /\ req' = [req EXCEPT ![p] = Finish(@, "verificationFailed")]
            /\ UNCHANGED <<users, creq>>
       ELSE IF Coins(g.amount) = 0
       THEN /\ req' = [req EXCEPT ![p] = Finish([@ EXCEPT !.paid = g.amount], "invalidAmount")]
            /\ UNCHANGED <<users, creq>>
       ELSE IF ~users[req[p].uid].exists
       THEN /\ req' = [req EXCEPT ![p] = Finish([@ EXCEPT !.paid = g.amount], "500")]
            /\ UNCHANGED <<users, creq>>
       ELSE /\ users' = [users EXCEPT ![req[p].uid] = IncrementCoin(@, Coins(g.amount))]
            /\ req' = ReqAfterWrite(p, [req[p] EXCEPT !.pc = "readback", !.paid = g.amount],
                                    {req[p].uid}, {})
            /\ creq' = ConvAfterWrite({req[p].uid})
  /\ UNCHANGED <<listings, started, paidBy, initDone, grants, lbVars, moreVars>>

\* /api/update-points as first registered: token, delta, set with merge.
UpdatePoints(p) ==
  /\ req[p].pc = "handler"
  /\ req[p].route = "updatePoints"
  /\ \E delta \in Deltas :
       IF req[p].token = "missing"
       THEN /\ req' = [req EXCEPT ![p] = Finish(@, "401")]
            /\ UNCHANGED <<users, creq>>
       ELSE IF req[p].token = "invalid"
       THEN /\ req' = [req EXCEPT ![p] = Finish(@, "500")]
            /\ UNCHANGED <<users, creq>>
       ELSE IF delta < -5 \/ delta > 5
       THEN /\ req' = [req EXCEPT ![p] = Finish(@, "invalidDelta")]
            /\ UNCHANGED <<users, creq>>
       ELSE /\ users' = [users EXCEPT ![req[p].uid] =
                            [@ EXCEPT !.exists = TRUE, !.userPoints = @ + delta]]
            /\ req' = ReqAfterWrite(p, [req[p] EXCEPT !.pc = "readback"], {req[p].uid}, {})
            /\ creq' = ConvAfterWrite({req[p].uid})
  /\ UNCHANGED <<listings, started, paidBy, initDone, grants, lbVars, moreVars>>

\* The read after the write of /wallet/topup and /api/update-points, and the
\* response that carries the value read.
ReadBack(p) ==
  /\ req[p].pc = "readback"
  /\ req' = [req EXCEPT ![p] =
       [Finish(@, "ok") EXCEPT !.newBalance =
          IF req[p].route = "walletTopup" THEN users[req[p].uid].coinBalance
          ELSE users[req[p].uid].userPoints]]
  /\ UNCHANGED <<users, listings, started, paidBy, initDone, grants, others>>

\* GET /wallet that initializes a missing wallet before it answers.
GetWalletLazyInit(p) ==
  /\ req[p].pc = "handler"
  /\ req[p].route = "getWallet"
  /\ req' = [req EXCEPT ![p] =
       IF req[p].token = "missing" THEN Finish(@, "401")
       ELSE IF req[p].token = "invalid" THEN Finish(@, "500")
       ELSE [Finish(@, "ok") EXCEPT !.newBalance =
               CoinOrZero(InitUserDoc(users[req[p].uid]))]]
  /\ users' = IF req[p].token = "valid" /\ ~users[req[p].uid].exists
              THEN [users EXCEPT ![req[p].uid] = InitUserDoc(@)]
              ELSE users
  /\ creq' = ConvAfterWrite(IF req[p].token = "valid" /\ ~users[req[p].uid].exists
                            THEN {req[p].uid} ELSE {})
  /\ UNCHANGED <<listings, started, paidBy, initDone, grants, lbVars, moreVars>>

\* GET /wallet.
GetWallet(p) ==
  /\ req[p].pc = "handler"
  /\ req[p].route = "getWallet"
  /\ req' = [req EXCEPT ![p] =
       IF req[p].token = "missing" THEN Finish(@, "401")
       ELSE IF req[p].token = "invalid" THEN Finish(@, "500")
       ELSE IF ~users[req[p].uid].exists THEN Finish(@, "walletMissing")
       ELSE [Finish(@, "ok") EXCEPT !.newBalance = CoinOrZero(users[req[p].uid])]]
  /\ UNCHANGED <<users, listings, started, paidBy, initDone, grants, others>>

Next ==
  \E p \in Procs :
    \/ Start(p)
    \/ VerifyIdToken(p)
    \/ InitUserSet(p)
    \/ TxnRead(p)
    \/ TxnCommit(p)
    \/ TxnRetry(p)
    \/ Notify(p)
    \/ PlainGet(p)
    \/ PlainUpdate(p)
    \/ TopupCredit(p)
    \/ UpdatePoints(p)
    \/ ReadBack(p)
    \/ GetWallet(p)

Spec == Init /\ [][Next]_vars

TypeOK ==
  /\ \A u \in Users : users[u].hasCoin => users[u].exists
  /\ started \in 0..MaxRequests

\* ---------------------------------------------------------------- claims
\* The slot whose request takes the step.
Acts(p) == req'[p].pc # req[p].pc

\* The acceptor a listing of collection c records.
AcceptorOf(c, doc) ==
  IF c = "books" THEN doc.acceptedByEmail
  ELSE IF c = "teacher" THEN doc.acceptedBy
  ELSE doc.fulfilledByEmail

\* C1: under top-up credits and settlement debits in any interleaving, no
\* wallet ever holds a negative coinBalance.
C1_NonNegativeBalance == \A u \in Users : users[u].coinBalance >= 0

\* A wallet that was both debited by a settlement and credited by a top-up.
C1_Witness ==
  \E u \in Users, c \in Collections :
    u \in paidBy[c] /\ users[u].coinBalance > StartingGrant

\* C2: of two settlement requests by different funded users on the same open
\* listing, exactly one is answered with success, the other with the
\* already-settled error, and the loser has not been debited for the listing.
C2_ExactlyOneSucceeds ==
  \A p, q \in Procs :
    ( /\ p # q
      /\ req[p].pc = "done" /\ req[q].pc = "done"
      /\ req[p].eligible /\ req[q].eligible
      /\ req[p].route = req[q].route /\ req[p].lid = req[q].lid
      /\ req[p].uid # req[q].uid )
    => \E w, l \in {p, q} :
         /\ w # l
         /\ req[w].resp = "ok"
         /\ req[l].resp = "alreadySettled"
         /\ req[l].uid \notin paidBy[Coll(req[l].route)]

\* C3: in no state has a settlement debit been applied while the listing is
\* not in its terminal status with the payer recorded as its acceptor.
C3_PaidListingReserved ==
  \A c \in Collections : \A u \in paidBy[c] :
    /\ listings[c]["l1"].status \in TerminalStatuses
    /\ AcceptorOf(c, listings[c]["l1"]) = Email(u)

\* C4: every listing in a terminal status got there together with a cleared
\* payment of its acceptor.
C4_TerminalOnlyPaid ==
  \A c \in Collections, l \in ListingIds :
    listings[c][l].status \in TerminalStatuses
      => AcceptorOf(c, listings[c][l]) \in paidBy[c]

\* C5: a step of a settlement request that does not commit, and so every step
\* of one that is answered with a business-rule error, leaves every wallet and
\* every listing as it was.
C5_FailureWritesNothing ==
  [][\A p \in Procs :
       ( /\ Acts(p)
         /\ req[p].route \in WalletRoutes
         /\ req[p].pc \in {"handler", "commit"}
         /\ req'[p].pc # "notify" )
       => /\ users' = users
          /\ listings' = listings]_vars

\* Balance 3 against COST 5: answered insufficient, balance 3, listing open.
C5_Witness ==
  \E p \in Procs :
    /\ req[p].pc = "done"
    /\ req[p].resp = "insufficient"
    /\ users[req[p].uid].coinBalance = 3
    /\ IsOpen(req[p].route, req[p].lid)

\* C6: a settlement request that reads its listing in a terminal status is
\* answered with the already-settled error, whatever the balance it reads.
C6_SettledBeforeFunds ==
  [][\A p \in Procs :
       ( /\ Acts(p)
         /\ req[p].route \in WalletRoutes
         /\ req[p].pc = "handler"
         /\ listings[Coll(req[p].route)][req[p].lid].status \in TerminalStatuses )
       => req'[p].resp = "alreadySettled"]_vars

\* C7: a listing in a terminal status is never written again.
C7_TerminalIsFinal ==
  [][\A c \in Collections, l \in ListingIds :
       listings[c][l].status \in TerminalStatuses
         => listings'[c][l] = listings[c][l]]_vars

\* C8: a call of initUser made after an earlier call for the same user has
\* returned writes nothing: no wallet changes and no grant is applied.
C8_SecondInitIsNoOp ==
  [][\A p \in Procs :
       ( /\ Acts(p)
         /\ req[p].afterInit
         /\ req[p].pc \in {"verify", "initSet"} )
       => /\ users' = users
          /\ grants' = grants]_vars

\* A later request of a user has passed the middleware after that user's
\* wallet was initialized and debited.
C8_Witness ==
  \E p \in Procs :
    /\ req[p].afterInit
    /\ req[p].pc = "handler"
    /\ grants[req[p].uid] = 1
    /\ \E c \in Collections : req[p].uid \in paidBy[c]

\* C9: initUser grants the 30 coins to a user at most once.
C9_GrantedOnce == \A u \in Users : grants[u] <= 1

\* C10: a user for whom the middleware has run has a wallet with a defined
\* coinBalance, role "user" and unverified status.
C10_WalletAfterMiddleware ==
  \A u \in initDone :
    /\ users[u].exists
    /\ users[u].hasCoin
    /\ users[u].role = "user"
    /\ users[u].isVerified = "false"

\* C15: /wallet/topup changes a wallet only for a payment the gateway reported
\* as successful, and then by the grant of the table 100000 -> 100,
\* 200000 -> 250, 400000 -> 500; a successful payment of another amount is
\* answered invalid-amount and no wallet changes.
C15_TopupByTable ==
  [][\A p \in Procs :
       ( /\ Acts(p)
         /\ req[p].route = "walletTopup"
         /\ req[p].pc = "handler" )
       => LET u == req[p].uid
              paid == req'[p].paid
              grant == IF paid = 100000 THEN 100
                       ELSE IF paid = 200000 THEN 250 ELSE 500
              credited == [users EXCEPT ![u].hasCoin = TRUE,
                             ![u].coinBalance =
                               (IF users[u].hasCoin THEN users[u].coinBalance ELSE 0) + grant]
          IN /\ users' # users => paid \in {100000, 200000, 400000}
             /\ (paid \in {100000, 200000, 400000} /\ users[u].exists)
                  => users' = credited
             /\ paid \notin {0, 100000, 200000, 400000}
                  => users' = users /\ req'[p].resp = "invalidAmount"
             /\ paid = 0 => users' = users]_vars

\* A verified payment of 200000 was answered with the balance plus 250.
C15_Witness ==
  \E p \in Procs :
    /\ req[p].pc = "done"
    /\ req[p].resp = "ok"
    /\ req[p].paid = 200000
    /\ req[p].newBalance \in {b + 250 : b \in InitBalances}

\* C16: the step that follows the commit of a settlement request answers
\* success, whether or not the notification emails could be sent.
C16_MailFailureSwallowed ==
  [][\A p \in Procs :
       ( /\ Acts(p)
         /\ req[p].route \in WalletRoutes
         /\ req[p].pc = "notify" )
       => req'[p].resp = "ok"]_vars

\* C17: in every state after a settlement request was answered with the
\* failure of its notification, its debit is committed and the listing is in
\* a terminal status with the payer as its acceptor.
C17_SettlementStaysAfterMailFailure ==
  \A p \in Procs :
    ( /\ req[p].pc = "done"
      /\ req[p].route \in WalletRoutes
      /\ req[p].resp = "mailError" )
    => LET c == Coll(req[p].route)
       IN /\ req[p].uid \in paidBy[c]
          /\ listings[c][req[p].lid].status \in TerminalStatuses
          /\ AcceptorOf(c, listings[c][req[p].lid]) = Email(req[p].uid)

\* C18: GET /wallet with a valid token writes nothing; it answers not-found
\* for a user with no wallet document and otherwise the stored coinBalance, 0
\* when the field is absent.
C18_GetWalletReadOnly ==
  [][\A p \in Procs :
       ( /\ Acts(p)
         /\ req[p].route = "getWallet"
         /\ req[p].pc = "handler"
         /\ req[p].token = "valid" )
       => LET doc == users[req[p].uid]
          IN /\ users' = users
             /\ listings' = listings
             /\ grants' = grants
             /\ IF ~doc.exists THEN req'[p].resp = "walletMissing"
                ELSE /\ req'[p].resp = "ok"
                     /\ req'[p].newBalance = IF doc.hasCoin THEN doc.coinBalance ELSE 0]_vars

\* GET /wallet was answered not-found and the user still has no wallet.
C18_Witness ==
  \E p \in Procs :
    /\ req[p].pc = "done"
    /\ req[p].resp = "walletMissing"
    /\ \E u \in Users : ~users[u].exists /\ grants[u] = 0

\* C19: a request with a missing or invalid token to a route that requires
\* authentication is answered 401 and changes no wallet and no listing.
C19_UnauthenticatedRejected ==
  [][\A p \in Procs :
       ( /\ Acts(p)
         /\ req[p].token \in {"invalid", "missing"}
         /\ req[p].route \in MiddlewareRoutes \cup {"getWallet"}
         /\ req[p].pc \in {"verify", "handler"} )
       => /\ req'[p].resp = "401"
          /\ users' = users
          /\ listings' = listings]_vars

\* ------------------------------------------------------ conversion routes
\* routes/wallet.js: /convertPointsToGQ and /convertCurrency, each a
\* transaction on the caller's document of collection "users".
ConvSlots == 1..MaxConversions
ConvRoutes == {"convertCurrency", "convertPointsToGQ"}
\* (from, to) of the body of /convertCurrency: the two directions and a pair
\* that is neither.
Directions == {<<"points", "gq">>, <<"gq", "points">>, <<"gq", "gq">>}
Amounts == {-100, 0, 2, 100, 250, 1000}

\* A wallet that holds c coins and g GQ.
ConvWallet(c, g) == [Wallet(c) EXCEPT !.gqBalance = g]
InitConvWallets == {NoWallet, ConvWallet(250, 0)}

\* coin0, gq0: the balances the transaction read; coin1, gq1: the balances it
\* queued to write.
ConvTokens == {"valid", "invalid", "missing"}

ConvIdle == [pc |-> "idle", route |-> "none", uid |-> "none", token |-> "none",
             from |-> "none",
             to |-> "none", amount |-> 0, coin0 |-> 0, gq0 |-> 0, coin1 |-> 0,
             gq1 |-> 0, stale |-> FALSE, resp |-> "none"]

\* The server has just started and serves conversion requests only: no slot
\* for a settlement request, and the listings, which no conversion reads, are
\* left out.
ConvInit ==
  /\ \E w \in InitConvWallets :
       users = [u \in Users |-> IF u = "u1" THEN w ELSE ConvWallet(250, 0)]
  /\ listings = <<>> /\ req = <<>> /\ paidBy = <<>>
  /\ started = 0
  /\ initDone = {}
  /\ grants = [u \in Users |-> 0]
  /\ creq = [k \in ConvSlots |-> ConvIdle]
  /\ LbOff
  /\ MoreOff

\* A whole unit of GQ for every started hundred of coins.
GqGainedCeil(amount) == (amount + 99) \div 100

\* Math.floor(amount / 100)
GqGained(amount) == amount \div 100

\* One coin more than the rate for every GQ.
PointsForGenerous(gq) == gq * 100 + 1

\* Half the rate for every GQ.
PointsForHalf(gq) == gq * 50

\* amount * 100
PointsFor(gq) == gq * 100

\* The checks and the body of the transaction of a conversion route on the
\* document it read: the error thrown ("none" when it returns), whether it
\* queued an update, and the balances of that update.
ConvBody(route, from, to, amount, doc) ==
  LET coin == CoinOrZero(doc)
      gq == doc.gqBalance
      out(e, w, c, g) == [err |-> e, write |-> w, coin |-> c, gq |-> g]
  IN IF route = "convertPointsToGQ"
     THEN IF amount = 0 \/ amount < 100 THEN out("minimum100", FALSE, coin, gq)
          ELSE IF ~doc.exists THEN out("userNotFound", FALSE, coin, gq)
          ELSE IF coin < amount THEN out("insufficientPoints", FALSE, coin, gq)
          ELSE out("none", TRUE, coin - GqGained(amount) * 100, gq + GqGained(amount))
     ELSE IF ~doc.exists THEN out("userNotFound", FALSE, coin, gq)
          ELSE IF from = "points" /\ to = "gq"
          THEN IF coin < 100 THEN out("needAtLeast100", FALSE, coin, gq)
               ELSE out("none", TRUE, coin - GqGained(amount) * 100,
                        gq + (GqGained(amount) * 100) \div 100)
          ELSE IF from = "gq" /\ to = "points"
          THEN IF gq < amount THEN out("insufficientGQ", FALSE, coin, gq)
               ELSE out("none", TRUE, coin + PointsFor(amount), gq - amount)
          ELSE out("none", FALSE, coin, gq)

\* The settlement request slots after a conversion request wrote the
\* documents wu of "users": a settlement that read one of them and has not
\* committed will find its commit refused.
ReqAfterConvWrite(wu) ==
  [q \in DOMAIN req |->
     IF req[q].pc = "commit" /\ req[q].uid \in wu
     THEN [req[q] EXCEPT !.stale = TRUE]
     ELSE req[q]]

\* A conversion request reaches the server and verifyIdToken, in front of both
\* routes, runs up to the read of initUser; slot k serves the k-th conversion
\* request.  Only a valid token names a user, and only a request that gets
\* past its token check reads its body.
ConvStart(k) ==
  /\ creq[k].pc = "idle"
  /\ \A j \in ConvSlots : j < k => creq[j].pc # "idle"
  /\ started < MaxRequests
  /\ \E route \in ConvRoutes, tok \in ConvTokens :
       \E u \in IF tok = "valid" THEN Users ELSE {"none"},
          amount \in IF tok = "valid" THEN Amounts ELSE {0} :
         \E d \in IF tok # "valid" THEN {<<"none", "none">>}
                  ELSE IF route = "convertCurrency" THEN Directions
                  ELSE {<<"points", "gq">>} :
           LET r == [ConvIdle EXCEPT !.route = route, !.uid = u, !.token = tok,
                                     !.from = d[1], !.to = d[2], !.amount = amount]
           IN IF tok # "valid"
              THEN /\ creq' = [creq EXCEPT ![k] = [r EXCEPT !.pc = "done", !.resp = "401"]]
                   /\ UNCHANGED initDone
              ELSE IF NeedsInit(users[u])
              THEN /\ creq' = [creq EXCEPT ![k] = [r EXCEPT !.pc = "initSet"]]
                   /\ UNCHANGED initDone
              ELSE /\ creq' = [creq EXCEPT ![k] = [r EXCEPT !.pc = "handler"]]
                   /\ initDone' = initDone \cup {u}
  /\ started' = started + 1
  /\ UNCHANGED <<users, listings, req, paidBy, grants, lbVars, moreVars>>

\* The write of initUser, then next().
ConvInitSet(k) ==
  /\ creq[k].pc = "initSet"
  /\ users' = [users EXCEPT ![creq[k].uid] = InitUserDoc(@)]
  /\ creq' = [ConvAfterWrite({creq[k].uid}) EXCEPT ![k] = [creq[k] EXCEPT !.pc = "handler"]]
  /\ req' = ReqAfterConvWrite({creq[k].uid})
  /\ initDone' = initDone \cup {creq[k].uid}
  /\ grants' = [grants EXCEPT ![creq[k].uid] = @ + 1]
  /\ UNCHANGED <<listings, started, paidBy, lbVars, moreVars>>

\* The checks before the transaction, its read and its body.  A throw is
\* answered with status 400; a body that queued no update returns at once.
ConvRead(k) ==
  /\ creq[k].pc = "handler"
  /\ LET r == creq[k]
         doc == users[r.uid]
         body == ConvBody(r.route, r.from, r.to, r.amount, doc)
         seen == [r EXCEPT !.coin0 = CoinOrZero(doc), !.gq0 = doc.gqBalance,
                           !.coin1 = body.coin, !.gq1 = body.gq, !.stale = FALSE]
     IN creq' = [creq EXCEPT ![k] =
          IF body.err # "none" THEN [seen EXCEPT !.pc = "done", !.resp = body.err]
          ELSE IF ~body.write THEN [seen EXCEPT !.pc = "done", !.resp = "ok"]
          ELSE [seen EXCEPT !.pc = "commit"]]
  /\ UNCHANGED <<vars, lbVars, moreVars>>

\* The commit of the queued update, accepted because the document was not
\* written since the read; the response reports success.
ConvCommit(k) ==
  /\ creq[k].pc = "commit"
  /\ ~creq[k].stale
  /\ users' = [users EXCEPT ![creq[k].uid] =
                 [@ EXCEPT !.hasCoin = TRUE, !.coinBalance = creq[k].coin1,
                           !.gqBalance = creq[k].gq1]]
  /\ creq' = [ConvAfterWrite({creq[k].uid}) EXCEPT ![k] =
                [creq[k] EXCEPT !.pc = "done", !.resp = "ok"]]
  /\ req' = ReqAfterConvWrite({creq[k].uid})
  /\ UNCHANGED <<listings, started, paidBy, initDone, grants, lbVars, moreVars>>

\* The commit refused: the store runs the body again from its read.
ConvRetry(k) ==
  /\ creq[k].pc = "commit"
  /\ creq[k].stale
  /\ creq' = [creq EXCEPT ![k] = [@ EXCEPT !.pc = "handler", !.stale = FALSE]]
  /\ UNCHANGED <<vars, lbVars, moreVars>>

ConvNext ==
  \E k \in ConvSlots :
    \/ ConvStart(k)
    \/ ConvInitSet(k)
    \/ ConvRead(k)
    \/ ConvCommit(k)
    \/ ConvRetry(k)

ConvSpec == ConvInit /\ [][ConvNext]_frameVars

\* ------------------------------------------------ the requests on wallets
\* One server and one store: settlement, top-up and conversion requests
\* arrive in any order and run interleaved at every await, all on the same
\* documents of "users".
FrameBalances == {30, 250}

FrameInit ==
  /\ users \in [Users -> {NoWallet} \cup {Wallet(b) : b \in FrameBalances}]
  /\ LedgerIdle
  /\ creq = [k \in ConvSlots |-> ConvIdle]
  /\ LbOff
  /\ MoreOff

FrameNext == Next \/ ConvNext

FrameSpec == FrameInit /\ [][FrameNext]_frameVars

\* The conversion slot whose request takes the step.
ConvActs(k) == creq'[k].pc # creq[k].pc

\* C26: a step of a paid settlement, of a top-up or of a conversion
\* authenticated as a user changes no wallet of another user, and a step of a
\* paid settlement changes no listing but the one its path names, in the
\* collection of its route.
C26_OwnWalletOwnListing ==
  [][/\ \A p \in Procs :
          LET r == req[p]
              named == IF r.route = "acceptBookWithWallet" THEN "books"
                       ELSE IF r.route = "fulfillRequestWithWallet" THEN "bookRequests"
                       ELSE "teachers"
          IN /\ (Acts(p) /\ r.route \in WalletRoutes \cup {"walletTopup"})
                  => \A u \in Users : u # r.uid => users'[u] = users[u]
             /\ (Acts(p) /\ r.route \in WalletRoutes)
                  => \A c \in Collections, l \in ListingIds :
                       <<c, l>> # <<named, r.lid>> => listings'[c][l] = listings[c][l]
     /\ \A k \in ConvSlots :
          ConvActs(k) =>
            \A u \in Users : u # creq'[k].uid => users'[u] = users[u]]_frameVars

\* A settlement of u1 and a conversion of u2 both answered with success: u1
\* paid COST coins for the book and holds no GQ, u2 holds the balances its
\* conversion wrote.
C26_Witness ==
  \E p \in Procs, k \in ConvSlots :
    /\ req[p].route = "acceptBookWithWallet" /\ req[p].uid = "u1"
    /\ req[p].pc = "done" /\ req[p].resp = "ok"
    /\ creq[k].uid = "u2" /\ creq[k].pc = "done" /\ creq[k].resp = "ok"
    /\ creq[k].coin1 # creq[k].coin0 /\ creq[k].gq1 # creq[k].gq0
    /\ users["u1"] = Wallet(req[p].newBalance)
    /\ users["u2"] = ConvWallet(creq[k].coin1, creq[k].gq1)

\* A request that converts coins to GQ.
CoinsToGQ(r) == r.from = "points" /\ r.to = "gq"

\* C11: after any conversion request, whatever its amount, coinBalance and
\* gqBalance of every wallet are >= 0.
C11_ConversionNonNegative ==
  \A u \in Users : users[u].coinBalance >= 0 /\ users[u].gqBalance >= 0

\* C12: a coins-to-GQ conversion of an amount below 100 is answered with an
\* error and no wallet is written for it.
C12_BelowChunkRejected ==
  [][\A k \in ConvSlots :
       ( /\ creq[k].pc = "handler"
         /\ creq'[k].pc # "handler"
         /\ CoinsToGQ(creq[k])
         /\ creq[k].amount < 100 )
       => /\ creq'[k].pc = "done"
          /\ creq'[k].resp # "ok"
          /\ users' = users]_frameVars

\* C13: a coins-to-GQ conversion of an amount with 100 <= amount <=
\* coinBalance is not rejected, and its commit adds floor(amount/100) to
\* gqBalance and takes 100 * floor(amount/100) from coinBalance.
C13_FloorChunks ==
  [][\A k \in ConvSlots :
       LET r == creq[k]
           doc == users[r.uid]
           units == CHOOSE n \in 0..(r.amount + 1) :
                      100 * n <= r.amount /\ r.amount < 100 * (n + 1)
       IN ( /\ creq'[k].pc # r.pc
            /\ r.pc \in {"handler", "commit"}
            /\ CoinsToGQ(r)
            /\ doc.exists
            /\ 100 <= r.amount /\ r.amount <= doc.coinBalance )
          => IF r.pc = "handler" THEN creq'[k].pc = "commit"
             ELSE IF r.stale THEN creq'[k].pc = "handler"
             ELSE /\ creq'[k].resp = "ok"
                  /\ users'[r.uid].gqBalance = doc.gqBalance + units
                  /\ users'[r.uid].coinBalance = doc.coinBalance - 100 * units]_frameVars

\* 250 of 250 coins converted: 2 GQ gained, 50 coins left.
C13_Witness ==
  \E k \in ConvSlots :
    /\ creq[k].pc = "done" /\ creq[k].resp = "ok"
    /\ CoinsToGQ(creq[k]) /\ creq[k].amount = 250
    /\ creq[k].coin0 = 250 /\ creq[k].coin1 = 50
    /\ users[creq[k].uid] = ConvWallet(50, creq[k].gq0 + 2)

\* A conversion of N >= 100 coins, N at most the balance, followed by the
\* conversion of the GQ it gained back to coins.
RoundTrip(j, k) ==
  /\ creq[j].pc = "done" /\ creq[j].resp = "ok"
  /\ creq[k].pc = "done" /\ creq[k].resp = "ok"
  /\ creq[j].uid = creq[k].uid
  /\ CoinsToGQ(creq[j])
  /\ creq[j].amount >= 100 /\ creq[j].amount <= creq[j].coin0
  /\ creq[k].route = "convertCurrency"
  /\ creq[k].from = "gq" /\ creq[k].to = "points"
  /\ creq[k].amount = creq[j].gq1 - creq[j].gq0
  /\ creq[k].coin0 = creq[j].coin1 /\ creq[k].gq0 = creq[j].gq1

\* C14: the round trip N coins -> GQ -> coins returns at most N coins: the
\* wallet holds no more coins after it than before it.
C14_RoundTripNoGain ==
  \A j, k \in ConvSlots :
    RoundTrip(j, k)
      => /\ creq[k].coin1 <= creq[j].coin0
         /\ creq[k].coin1 - creq[j].coin1 <= creq[j].amount

\* 250 coins converted to 2 GQ and the 2 GQ converted back.
C14_Witness ==
  \E j, k \in ConvSlots :
    RoundTrip(j, k) /\ creq[j].amount = 250 /\ creq[k].amount = 2

\* The total value of a wallet in coins.
TotalValue(doc) == doc.coinBalance + 100 * doc.gqBalance

\* C25: the commit of a conversion request, of either direction and of either
\* route, leaves coinBalance + 100 * gqBalance of the wallet as it was, and a
\* /convertCurrency request with another (from, to) pair is answered without
\* a write.
C25_ConversionPreservesValue ==
  [][\A k \in ConvSlots :
       LET r == creq[k]
       IN /\ (r.pc = "commit" /\ creq'[k].pc = "done")
               => TotalValue(users'[r.uid]) = TotalValue(users[r.uid])
          /\ ( /\ r.pc = "handler" /\ creq'[k].pc # "handler"
               /\ r.route = "convertCurrency"
               /\ <<r.from, r.to>> \notin {<<"points", "gq">>, <<"gq", "points">>} )
               => creq'[k].pc = "done" /\ users' = users]_frameVars

\* A committed conversion that moved value between the two balances, and a
\* request with the pair (gq, gq) answered.
C25_Witness ==
  \E j, k \in ConvSlots :
    /\ creq[j].pc = "done" /\ creq[j].resp = "ok"
    /\ creq[j].coin1 # creq[j].coin0 /\ creq[j].gq1 # creq[j].gq0
    /\ users[creq[j].uid].coinBalance = creq[j].coin1
    /\ creq[k].pc = "done" /\ creq[k].from = "gq" /\ creq[k].to = "gq"
    /\ users[creq[k].uid].exists

\* ------------------------------------------------------------ leaderboard
\* GET /api/leaderboard of server.js, as a function of the collection "users"
\* and of the request.  Document ids are numbers so that they are ordered.
LbUsers == 1..3
LbTokens == {"valid", "invalid", "missing"}
Limits == {1, 2}

\* A document of "users" as the leaderboard reads it: has tells whether the
\* field the window orders by is present.
ScoreDocs ==
  {[exists |-> FALSE, has |-> FALSE, points |-> 0],
   [exists |-> TRUE, has |-> FALSE, points |-> 0]} \cup
  {[exists |-> TRUE, has |-> TRUE, points |-> n] : n \in 0..MaxScore}

\* The request being served and what it has read so far.  A myRank of 0 and a
\* hasNext of FALSE stand for null; found is userSnap.exists; clean tells that
\* no document was written since the top query of the request.
\* A uid of 0 is a request whose token names no user.
NoLbResp == [pc |-> "idle", status |-> "none", token |-> "none", uid |-> 0,
             limit |-> 0, top |-> <<>>, inTop |-> FALSE, found |-> FALSE,
             myRank |-> 0, myPoints |-> 0, hasNext |-> FALSE, pointsToNext |-> 0,
             clean |-> TRUE]

LbInit ==
  /\ board \in [LbUsers -> ScoreDocs]
  /\ lbResp = NoLbResp
  /\ LedgerOff
  /\ ConvOff
  /\ MoreOff

\* The documents a query ordered by the field returns: those that have it.
Ordered == {v \in LbUsers : board[v].has}

\* orderBy(orderField, "desc"): by points, ties by document id, descending.
Precedes(a, b) ==
  \/ board[a].points > board[b].points
  \/ board[a].points = board[b].points /\ a > b

RECURSIVE Ranked(_)
Ranked(S) ==
  IF S = {} THEN <<>>
  ELSE LET first == CHOOSE a \in S : \A b \in S \ {a} : Precedes(a, b)
       IN <<first>> \o Ranked(S \ {first})

\* .limit(parseInt(limit))
Limit(seq, n) == SubSeq(seq, 1, IF Len(seq) < n THEN Len(seq) ELSE n)

\* data[orderField] || 0
PointsOrZero(doc) == IF doc.has THEN doc.points ELSE 0

\* A count that takes the users of equal score for higher ones.
HigherOrEqualCount(userPoints) ==
  Cardinality({v \in Ordered : board[v].points >= userPoints})

\* where(orderField, ">", userPoints).count()
HigherCount(userPoints) == Cardinality({v \in Ordered : board[v].points > userPoints})

\* orderBy(orderField, "desc").startAfter(userPoints).limit(1): the documents
\* that come after the value userPoints in descending order.
AboveSnap(userPoints) ==
  Limit(Ranked({v \in Ordered : board[v].points < userPoints}), 1)

\* The entries pushed by snapshot.forEach for the top query.
TopEntries(limit) ==
  LET top == Limit(Ranked(Ordered), limit)
  IN [i \in 1..Len(top) |->
        [rank |-> i, uid |-> top[i], points |-> PointsOrZero(board[top[i]])]]

\* GET /api/leaderboard reaches the server.  Without a token the handler goes
\* to its top query; with one it awaits the verification first.
LbStart ==
  /\ lbResp.pc \in {"idle", "done"}
  /\ \E tok \in LbTokens, limit \in Limits :
       \E uid \in IF tok = "valid" THEN LbUsers ELSE {0} :
         lbResp' = [NoLbResp EXCEPT !.pc = IF tok = "missing" THEN "top" ELSE "verify",
                                    !.token = tok, !.uid = uid, !.limit = limit]
  /\ UNCHANGED <<board, vars, convVars, moreVars>>

\* auth.verifyIdToken: a rejected token reaches the catch of the handler.
LbVerify ==
  /\ lbResp.pc = "verify"
  /\ lbResp' = IF lbResp.token = "invalid"
               THEN [lbResp EXCEPT !.pc = "done", !.status = "500"]
               ELSE [lbResp EXCEPT !.pc = "top"]
  /\ UNCHANGED <<board, vars, convVars, moreVars>>

\* The top query and the loop over its documents; the response of a request
\* without uid or with its uid in the list.
LbTop ==
  /\ lbResp.pc = "top"
  /\ LET top == TopEntries(lbResp.limit)
         uid == lbResp.uid
         inTop == \E i \in 1..Len(top) : top[i].uid = uid
         r == [lbResp EXCEPT !.top = top, !.clean = TRUE]
     IN lbResp' =
          IF uid = 0 THEN [r EXCEPT !.pc = "done", !.status = "ok"]
          ELSE IF inTop
          THEN [r EXCEPT !.pc = "done", !.status = "ok", !.inTop = TRUE,
                         !.myRank = CHOOSE i \in 1..Len(top) : top[i].uid = uid,
                         !.myPoints = top[CHOOSE i \in 1..Len(top) : top[i].uid = uid].points]
          ELSE [r EXCEPT !.pc = "user"]
  /\ UNCHANGED <<board, vars, convVars, moreVars>>

\* firestore.collection("users").doc(uid).get()
LbUser ==
  /\ lbResp.pc = "user"
  /\ lbResp' = IF ~board[lbResp.uid].exists
               THEN [lbResp EXCEPT !.pc = "done", !.status = "ok"]
               ELSE [lbResp EXCEPT !.pc = "count", !.found = TRUE,
                                   !.myPoints = PointsOrZero(board[lbResp.uid])]
  /\ UNCHANGED <<board, vars, convVars, moreVars>>

\* The count query.
LbCount ==
  /\ lbResp.pc = "count"
  /\ lbResp' = [lbResp EXCEPT !.pc = "above",
                              !.myRank = HigherCount(lbResp.myPoints) + 1]
  /\ UNCHANGED <<board, vars, convVars, moreVars>>

\* The startAfter query and the response.
LbAbove ==
  /\ lbResp.pc = "above"
  /\ LET above == AboveSnap(lbResp.myPoints)
     IN lbResp' = [lbResp EXCEPT !.pc = "done", !.status = "ok",
                     !.hasNext = (above # <<>>),
                     !.pointsToNext = IF above = <<>> THEN 0
                                      ELSE board[above[1]].points - lbResp.myPoints + 1]
  /\ UNCHANGED <<board, vars, convVars, moreVars>>

\* A client of the store writes a document of "users" while the request is
\* served.
BoardWrite ==
  /\ lbResp.pc \in {"verify", "top", "user", "count", "above"}
  /\ \E v \in LbUsers, doc \in ScoreDocs :
       /\ doc # board[v]
       /\ board' = [board EXCEPT ![v] = doc]
  /\ lbResp' = [lbResp EXCEPT !.clean = (lbResp.pc \in {"verify", "top"})]
  /\ UNCHANGED <<vars, convVars, moreVars>>

LbNext ==
  \/ LbStart
  \/ LbVerify
  \/ LbTop
  \/ LbUser
  \/ LbCount
  \/ LbAbove
  \/ BoardWrite

LbSpec == LbInit /\ [][LbNext]_lbVars

\* The scores strictly greater than the score of the requesting user.
HigherScores ==
  {board[v].points : v \in {w \in Ordered : board[w].points > lbResp.myPoints}}

\* The response to a user who has a document and is not in the top list, on a
\* collection that was not written between the queries of the request.
OutsideTop ==
  /\ lbResp.pc = "done"
  /\ lbResp.status = "ok"
  /\ lbResp.clean
  /\ lbResp.uid # 0
  /\ lbResp.found
  /\ ~lbResp.inTop

\* C20: for a requesting user outside the top list, pointsToNext is null
\* exactly when no user has a higher score, and otherwise it is the smallest
\* higher score minus the user's score plus 1, a positive number.
C20_PointsToNextFromHigher ==
  OutsideTop =>
    /\ lbResp.hasNext <=> HigherScores # {}
    /\ lbResp.hasNext =>
         /\ lbResp.pointsToNext > 0
         /\ \E h \in HigherScores :
              /\ \A g \in HigherScores : h <= g
              /\ lbResp.pointsToNext = h - lbResp.myPoints + 1

\* C21: the top list holds the highest scores in descending order with the
\* ranks 1..k, and the myRank of a user outside it is 1 plus the number of
\* users with a strictly higher score, which is above the rank of every
\* listed entry with a higher score (the collection not being written
\* between the queries of the request).
C21_RankByHigherCount ==
  (lbResp.pc = "done" /\ lbResp.status = "ok" /\ lbResp.clean) =>
    LET top == lbResp.top
        listed == {top[i].uid : i \in 1..Len(top)}
        score(v) == IF board[v].has THEN board[v].points ELSE 0
    IN /\ \A i \in 1..Len(top) : top[i].rank = i /\ top[i].points = score(top[i].uid)
       /\ \A i, j \in 1..Len(top) : i < j => top[i].points >= top[j].points
       /\ \A v \in LbUsers \ listed : board[v].has =>
            /\ Len(top) = lbResp.limit
            /\ \A i \in 1..Len(top) : top[i].points >= board[v].points
       /\ OutsideTop =>
            /\ lbResp.myRank =
                 1 + Cardinality({v \in LbUsers : board[v].exists /\ score(v) > lbResp.myPoints})
            /\ \A i \in 1..Len(top) :
                 top[i].points > lbResp.myPoints => lbResp.myRank > top[i].rank

\* A user outside a top list of one entry, with two users of higher score.
C21_Witness ==
  /\ OutsideTop
  /\ lbResp.limit = 1
  /\ Len(lbResp.top) = 1
  /\ lbResp.myRank = 3

\* C22: every step that changes the coinBalance of a wallet or the status of
\* a listing is the commit of a store transaction.
C22_WritesOnlyInTransactions ==
  [][( \/ \E u \in Users :
            \/ users'[u].coinBalance # users[u].coinBalance
            \/ users'[u].hasCoin # users[u].hasCoin
       \/ \E c \in Collections, l \in ListingIds :
            listings'[c][l].status # listings[c][l].status )
     => \E p \in Procs : req[p].pc = "commit" /\ req'[p].pc = "notify"]_vars

\* ------------------------------- one user's concurrent paid settlements
\* User "u1" sends one paid settlement per slot, each for a listing of its
\* own: the book "l1" and the book request "l1".
\* The balances differ modulo COST, so a final balance names its initial one.
SettleBalances == {3, 7, 11}

SettleRoute(p) == IF p = "p1" THEN "acceptBookWithWallet" ELSE "fulfillRequestWithWallet"

SettleInit ==
  /\ \E b \in SettleBalances : users = [u \in Users |->
        IF u = "u1" THEN Wallet(b) ELSE Wallet(StartingGrant)]
  /\ listings = [c \in Collections |-> [l \in ListingIds |->
        IF l = "l1" /\ c = "books" THEN Posted(c, "available")
        ELSE IF l = "l1" /\ c \in {"bookRequests", "teachers"} THEN Posted(c, "pending")
        ELSE NoListing]]
  /\ req = [p \in Procs |-> Idle]
  /\ started = 0
  /\ paidBy = [c \in Collections |-> {}]
  /\ initDone = {}
  /\ grants = [u \in Users |-> 0]
  /\ OthersIdle

StartSettle(p) ==
  /\ req[p].pc = "idle"
  /\ req' = [req EXCEPT ![p] =
       [Idle EXCEPT !.pc = "verify", !.route = SettleRoute(p), !.uid = "u1",
                    !.token = "valid", !.lid = "l1",
                    !.afterInit = ("u1" \in initDone),
                    !.eligible = /\ IsOpen(SettleRoute(p), "l1")
                                 /\ HasFunds(users["u1"])]]
  /\ started' = started + 1
  /\ UNCHANGED <<users, listings, paidBy, initDone, grants, others>>

SettleNext ==
  \E p \in Procs :
    \/ StartSettle(p)
    \/ VerifyIdToken(p)
    \/ TxnRead(p)
    \/ TxnCommit(p)
    \/ TxnRetry(p)
    \/ Notify(p)

SettleSpec == SettleInit /\ [][SettleNext]_vars

\* The requests answered with success, and the listings that record "u1".
Successes == Cardinality({p \in Procs : req[p].pc = "done" /\ req[p].resp = "ok"})

AcceptedByU1 ==
  Cardinality({c \in {"books", "bookRequests"} :
                 AcceptorOf(c, listings[c]["l1"]) = Email("u1")})

\* C24: once the concurrent paid settlements of one user with balance b on
\* distinct listings are all answered, at most b \div COST of them succeeded,
\* the balance is b minus COST for each success, and the listings that record
\* the user as acceptor are as many as the successes.
C24_NoOverdraftNoLostDebit ==
  (\A p \in Procs : req[p].pc = "done") =>
    \E b \in SettleBalances :
      /\ Successes <= b \div COST
      /\ users["u1"].coinBalance = b - COST * Successes
      /\ AcceptedByU1 = Successes

\* ------------------------------------------- a transaction under contention
\* firestore.runTransaction of /acceptBookWithWallet while other clients write
\* the documents it reads: the store refuses the commit and runs the body
\* again.  The handler passes no options and no file of src/ limits the
\* attempts: the limit is the one the specification gives for the store
\* ("TransactionConflict is retried internally a bounded number of times
\* before surfacing as ExternalServiceFailure"), MaxAttempts attempts here.
\* The rejection is answered by the catch of the handler with status 400 and
\* the message of the store.  No awaited call has a timeout: one that never
\* returns leaves the request without response.
RetryBalances == {3, 5, 10, 30}

RtIdle(b) == [pc |-> "idle", attempts |-> 0, stale |-> FALSE, coin0 |-> b,
              coinBalance |-> b, status |-> "available", newBalance |-> 0,
              debits |-> 0, resp |-> "none"]

RtInit ==
  /\ rtx \in {RtIdle(b) : b \in RetryBalances}
  /\ LedgerOff /\ ConvOff /\ LbOff
  /\ TopupOff /\ PointsOff /\ LikeOff

\* The store's bound on the attempts of one transaction, as the
\* specification states it.
MayRetry(attempts) == attempts < MaxAttempts

\* The owner of the wallet sends POST /acceptBookWithWallet/:bookId.
RtStart ==
  /\ rtx.pc = "idle"
  /\ rtx' = [rtx EXCEPT !.pc = "handler", !.attempts = 1]
  /\ UNCHANGED <<vars, convVars, lbVars, topupVars, pointsVars, likeVars>>

\* One attempt: the two reads and the body.
RtRead ==
  /\ rtx.pc = "handler"
  /\ LET body == Body("acceptBookWithWallet", Wallet(rtx.coinBalance), Posted("books", rtx.status))
     IN rtx' = IF body.err # "none"
               THEN [rtx EXCEPT !.pc = "done", !.resp = body.err]
               ELSE [rtx EXCEPT !.pc = "commit", !.newBalance = body.newBalance,
                                !.stale = FALSE]
  /\ UNCHANGED <<vars, convVars, lbVars, topupVars, pointsVars, likeVars>>

\* Another client writes a field of the wallet document that the transaction
\* read (POST /api/update-points writes userPoints of the same document).
RtOtherWrite ==
  /\ rtx.pc = "commit"
  /\ ~rtx.stale
  /\ rtx' = [rtx EXCEPT !.stale = TRUE]
  /\ UNCHANGED <<vars, convVars, lbVars, topupVars, pointsVars, likeVars>>

\* Another user's settlement of the same book commits.
RtSettledByOther ==
  /\ rtx.pc \in {"handler", "commit"}
  /\ rtx.status = "available"
  /\ rtx' = [rtx EXCEPT !.status = "accepted",
                         !.stale = (rtx.pc = "commit" \/ rtx.stale)]
  /\ UNCHANGED <<vars, convVars, lbVars, topupVars, pointsVars, likeVars>>

\* The commit accepted: the two updates are written.
RtCommit ==
  /\ rtx.pc = "commit"
  /\ ~rtx.stale
  /\ rtx' = [rtx EXCEPT !.pc = "notify", !.coinBalance = rtx.newBalance,
                         !.status = "accepted", !.debits = @ + 1]
  /\ UNCHANGED <<vars, convVars, lbVars, topupVars, pointsVars, likeVars>>

\* A refused commit that leaves the debit of the attempt in the wallet before
\* the body runs again.
RtRetryKeepsDebit ==
  /\ rtx.pc = "commit"
  /\ rtx.stale
  /\ MayRetry(rtx.attempts)
  /\ rtx' = [rtx EXCEPT !.pc = "handler", !.stale = FALSE, !.attempts = @ + 1,
                         !.coinBalance = rtx.newBalance, !.debits = @ + 1]
  /\ UNCHANGED <<vars, convVars, lbVars, topupVars, pointsVars, likeVars>>

\* The commit refused, nothing written, and the body run again from its reads.
RtRetry ==
  /\ rtx.pc = "commit"
  /\ rtx.stale
  /\ MayRetry(rtx.attempts)
  /\ rtx' = [rtx EXCEPT !.pc = "handler", !.stale = FALSE, !.attempts = @ + 1]
  /\ UNCHANGED <<vars, convVars, lbVars, topupVars, pointsVars, likeVars>>

\* The commit refused at the last attempt: runTransaction rejects and the
\* catch of the handler answers.
RtGiveUp ==
  /\ rtx.pc = "commit"
  /\ rtx.stale
  /\ ~MayRetry(rtx.attempts)
  /\ rtx' = [rtx EXCEPT !.pc = "done", !.resp = "storeError"]
  /\ UNCHANGED <<vars, convVars, lbVars, topupVars, pointsVars, likeVars>>

\* The notifications and the response after the commit.
RtNotify ==
  /\ rtx.pc = "notify"
  /\ \E sent \in BOOLEAN :
       rtx' = [rtx EXCEPT !.pc = "done", !.resp = IF sent THEN "ok" ELSE "mailError"]
  /\ UNCHANGED <<vars, convVars, lbVars, topupVars, pointsVars, likeVars>>

\* An awaited call of the store or of the mailer never returns: the handler
\* has no timeout and stays where it is.  A commit that never returns may or
\* may not have been applied by the store.
RtHang ==
  /\ rtx.pc \in {"handler", "commit", "notify"}
  /\ \E applied \in IF rtx.pc = "commit" /\ ~rtx.stale THEN BOOLEAN ELSE {FALSE} :
       rtx' = IF applied
              THEN [rtx EXCEPT !.pc = "hung", !.coinBalance = rtx.newBalance,
                               !.status = "accepted", !.debits = @ + 1]
              ELSE [rtx EXCEPT !.pc = "hung"]
  /\ UNCHANGED <<vars, convVars, lbVars, topupVars, pointsVars, likeVars>>

\* The steps of the request after a call that returned.
RtStep == RtRead \/ RtCommit \/ RtRetry \/ RtGiveUp \/ RtNotify

RtNext ==
  \/ RtStart
  \/ RtRead
  \/ RtOtherWrite
  \/ RtSettledByOther
  \/ RtCommit
  \/ RtRetry
  \/ RtGiveUp
  \/ RtNotify
  \/ RtHang

\* Every awaited call either returns, and the event loop then runs the
\* continuation of the handler, or never returns (RtHang).
RetrySpec == RtInit /\ [][RtNext]_retryVars /\ WF_retryVars(RtStep)

TopupSlots == 1..MaxTopups
Refs == {"r100", "r250", "rOdd", "rFail"}

\* The answer of transaction/verify/<reference>.
Verify(ref) ==
  IF ref = "r100" THEN [status |-> "success", amount |-> 100000]
  ELSE IF ref = "r250" THEN [status |-> "success", amount |-> 200000]
  ELSE IF ref = "rOdd" THEN [status |-> "success", amount |-> 1000]
  ELSE [status |-> "failed", amount |-> 0]

TopIdle == [pc |-> "idle", uid |-> "none", ref |-> "none", coins |-> 0,
            credited |-> FALSE, newBalance |-> 0, resp |-> "none"]

TopupInit ==
  /\ tbal = [u \in Users |-> StartingGrant]
  /\ treq = [k \in TopupSlots |-> TopIdle]
  /\ LedgerOff /\ ConvOff /\ LbOff
  /\ RetryOff /\ PointsOff /\ LikeOff

\* The references a credit was written for.
Consumed == {treq[k].ref : k \in {j \in TopupSlots : treq[j].credited}}

\* A reference credited once: nothing for a reference already consumed.
GrantOnce(ref, consumed) == IF ref \in consumed THEN 0 ELSE Coins(Verify(ref).amount)

\* The coins credited for a verified reference, whatever was consumed before.
Grant(ref, consumed) == Coins(Verify(ref).amount)

\* A client sends a top-up request with a valid token; slot k serves the k-th
\* request.
TopStart(k) ==
  /\ treq[k].pc = "idle"
  /\ \A j \in TopupSlots : j < k => treq[j].pc # "idle"
  /\ \E u \in Users, ref \in Refs :
       treq' = [treq EXCEPT ![k] = [TopIdle EXCEPT !.pc = "verify", !.uid = u, !.ref = ref]]
  /\ UNCHANGED <<tbal, vars, convVars, lbVars, retryVars, pointsVars, likeVars>>

\* The answer of the gateway and the amount table.
TopVerify(k) ==
  /\ treq[k].pc = "verify"
  /\ LET g == Verify(treq[k].ref)
     IN treq' = [treq EXCEPT ![k] =
          IF g.status # "success"
          THEN [@ EXCEPT !.pc = "done", !.resp = "verificationFailed"]
          ELSE IF Coins(g.amount) = 0
          THEN [@ EXCEPT !.pc = "done", !.resp = "invalidAmount"]
          ELSE [@ EXCEPT !.pc = "credit", !.coins = Grant(treq[k].ref, Consumed)]]
  /\ UNCHANGED <<tbal, vars, convVars, lbVars, retryVars, pointsVars, likeVars>>

\* userRef.update({coinBalance: FieldValue.increment(coins)})
TopCredit(k) ==
  /\ treq[k].pc = "credit"
  /\ tbal' = [tbal EXCEPT ![treq[k].uid] = @ + treq[k].coins]
  /\ treq' = [treq EXCEPT ![k] = [@ EXCEPT !.pc = "readback", !.credited = TRUE]]
  /\ UNCHANGED <<vars, convVars, lbVars, retryVars, pointsVars, likeVars>>

\* The read of the balance and the response.
TopReadBack(k) ==
  /\ treq[k].pc = "readback"
  /\ treq' = [treq EXCEPT ![k] =
       [@ EXCEPT !.pc = "done", !.resp = "ok", !.newBalance = tbal[treq[k].uid]]]
  /\ UNCHANGED <<tbal, vars, convVars, lbVars, retryVars, pointsVars, likeVars>>

TopupNext ==
  \E k \in TopupSlots :
    \/ TopStart(k)
    \/ TopVerify(k)
    \/ TopCredit(k)
    \/ TopReadBack(k)

TopupSpec == TopupInit /\ [][TopupNext]_topupVars

\* The number of requests of user u that submitted reference ref.
Submitted(u, ref) ==
  Cardinality({k \in TopupSlots : treq[k].pc # "idle" /\ treq[k].uid = u /\ treq[k].ref = ref})

\* C27: once the top-up requests are answered, every request with a verified
\* reference of a listed amount was answered with success, and every wallet
\* holds its starting balance plus the grant of each such reference times the
\* number of requests that submitted it: a reference submitted k times is
\* credited k times.
C27_ReferenceCreditedEveryTime ==
  (\A k \in TopupSlots : treq[k].pc \in {"idle", "done"}) =>
    /\ \A k \in TopupSlots :
         (treq[k].pc = "done" /\ treq[k].ref \in {"r100", "r250"}) => treq[k].resp = "ok"
    /\ \A u \in Users :
         tbal[u] = StartingGrant + 100 * Submitted(u, "r100") + 250 * Submitted(u, "r250")

\* The reference of 200000 kobo submitted by two requests, both credited.
C27_Witness ==
  /\ \A k \in TopupSlots : treq[k].pc \in {"idle", "done"}
  /\ \E j, k \in TopupSlots :
       /\ j # k
       /\ treq[j].ref = "r250" /\ treq[k].ref = "r250"
       /\ treq[j].resp = "ok" /\ treq[k].resp = "ok"
       /\ treq[j].uid = treq[k].uid
       /\ tbal[treq[j].uid] = StartingGrant + 500

\* ------------------------------------------------- /api/update-points
\* One document of "users" under POST /api/update-points.  server.js registers
\* two handlers for the path: the first increments userPoints, the second
\* keeps daily and all-time points and the streak in a transaction.  A day is
\* a number; 0 stands for a lastQuizDate the document does not have, and an
\* absent number field reads as 0 (userData.x || 0).
Days == 1..MaxDay
PointSlots == 1..MaxPointReqs
PointDeltas == {-5, 1, 6}
PointTokens == {"valid", "invalid", "missing"}

NoPointsDoc == [exists |-> FALSE, userPoints |-> 0, allTimePoints |-> 0,
                dailyPoints |-> 0, streakCount |-> 0, lastQuizDate |-> 0]

\* A request: day is the date at which its token was verified (the `now` of
\* the second handler), before the document its write was
\* computed on (the snapshot of the transaction), after the document that
\* write left, stale whether the snapshot was overwritten since it was read.
NoPointsResp == [pc |-> "idle", code |-> "none", token |-> "none", delta |-> 0,
                 day |-> 0, newBalance |-> 0, stale |-> FALSE,
                 before |-> NoPointsDoc, after |-> NoPointsDoc]

\* The handlers of POST /api/update-points in their order of registration.
Registrations == <<"incrementOnly", "withStreaks">>

\* Express calls the first handler registered for the path; it answers
\* without calling next().
Served == Registrations[1]

\* Number.isInteger(delta) && -5 <= delta <= 5
ValidDelta(delta) == delta >= -5 /\ delta <= 5

\* set({userPoints: FieldValue.increment(delta)}, {merge: true})
IncrementOnly(doc, delta) ==
  [doc EXCEPT !.exists = TRUE, !.userPoints = @ + delta]

\* A streak that grows on every new day, missed days included.
NextStreakNeverReset(streakCount, lastQuizDate, day) ==
  IF lastQuizDate = day THEN streakCount ELSE streakCount + 1

\* The streak after a quiz on day `day`.
NextStreak(streakCount, lastQuizDate, day) ==
  IF lastQuizDate = day THEN streakCount
  ELSE IF lastQuizDate # 0 /\ lastQuizDate = day - 1 THEN streakCount + 1
  ELSE 1

\* The body of the transaction of the second handler, on the snapshot doc.
WithStreaks(doc, day, delta) ==
  [exists |-> TRUE,
   userPoints |-> doc.userPoints + delta,
   allTimePoints |-> doc.allTimePoints + delta,
   dailyPoints |-> (IF doc.lastQuizDate # day THEN 0 ELSE doc.dailyPoints) + delta,
   streakCount |-> NextStreak(doc.streakCount, doc.lastQuizDate, day),
   lastQuizDate |-> day]

PointsInit ==
  /\ pdoc \in {NoPointsDoc,
               [NoPointsDoc EXCEPT !.exists = TRUE],
               [exists |-> TRUE, userPoints |-> 3, allTimePoints |-> 3,
                dailyPoints |-> 2, streakCount |-> 1, lastQuizDate |-> 1]}
  /\ today = 1
  /\ presp = [k \in PointSlots |-> NoPointsResp]
  /\ LedgerOff /\ ConvOff /\ LbOff
  /\ RetryOff /\ TopupOff /\ LikeOff

\* POST /api/update-points reaches the server: a request without token is
\* answered at once, any other awaits the verification of its token.
PtStart(k) ==
  /\ presp[k].pc = "idle"
  /\ \A j \in PointSlots : j < k => presp[j].pc # "idle"
  /\ \E tok \in PointTokens, delta \in PointDeltas :
       presp' = [presp EXCEPT ![k] =
                   IF tok = "missing"
                   THEN [@ EXCEPT !.pc = "done", !.code = "401", !.token = tok,
                                  !.delta = delta]
                   ELSE [@ EXCEPT !.pc = "verify", !.token = tok, !.delta = delta]]
  /\ UNCHANGED <<pdoc, today, vars, convVars, lbVars, retryVars, topupVars, likeVars>>

\* auth.verifyIdToken settles: a rejected token reaches the catch, then the
\* delta is tested; the second handler takes `now` in the same turn.
PtVerify(k, handler) ==
  /\ presp[k].pc = "verify"
  /\ presp' = [presp EXCEPT ![k] =
                 IF @.token = "invalid" THEN [@ EXCEPT !.pc = "done", !.code = "500"]
                 ELSE IF ~ValidDelta(@.delta) THEN [@ EXCEPT !.pc = "done", !.code = "400"]
                 ELSE [@ EXCEPT !.pc = IF handler = "incrementOnly" THEN "set"
                                       ELSE "txRead",
                                !.day = today]]
  /\ UNCHANGED <<pdoc, today, vars, convVars, lbVars, retryVars, topupVars, likeVars>>

\* The write of the first handler.
PtSet(k) ==
  /\ presp[k].pc = "set"
  /\ pdoc' = IncrementOnly(pdoc, presp[k].delta)
  /\ presp' = [presp EXCEPT ![k] = [@ EXCEPT !.pc = "get", !.before = pdoc,
                                             !.after = pdoc']]
  /\ UNCHANGED <<today, vars, convVars, lbVars, retryVars, topupVars, likeVars>>

\* transaction.get(userRef) of the second handler.
PtTxRead(k) ==
  /\ presp[k].pc = "txRead"
  /\ presp' = [presp EXCEPT ![k] = [@ EXCEPT !.pc = "txCommit", !.before = pdoc,
                                             !.stale = FALSE]]
  /\ UNCHANGED <<pdoc, today, vars, convVars, lbVars, retryVars, topupVars, likeVars>>

\* The commit of the transaction, on a snapshot nobody has overwritten.
PtTxCommit(k) ==
  /\ presp[k].pc = "txCommit"
  /\ ~presp[k].stale
  /\ pdoc' = WithStreaks(presp[k].before, presp[k].day, presp[k].delta)
  /\ presp' = [j \in PointSlots |->
                 IF j = k THEN [presp[j] EXCEPT !.pc = "get", !.after = pdoc']
                 ELSE IF presp[j].pc = "txCommit" THEN [presp[j] EXCEPT !.stale = TRUE]
                 ELSE presp[j]]
  /\ UNCHANGED <<today, vars, convVars, lbVars, retryVars, topupVars, likeVars>>

\* The store refuses the commit of an overwritten snapshot and the library
\* runs the body again (each request is overtaken fewer than MaxAttempts
\* times here).
PtTxRetry(k) ==
  /\ presp[k].pc = "txCommit"
  /\ presp[k].stale
  /\ presp' = [presp EXCEPT ![k] = [@ EXCEPT !.pc = "txRead"]]
  /\ UNCHANGED <<pdoc, today, vars, convVars, lbVars, retryVars, topupVars, likeVars>>

\* userRef.get() after the write, and the response.
PtReadBack(k, handler) ==
  /\ presp[k].pc = "get"
  /\ presp' = [presp EXCEPT ![k] =
                 [@ EXCEPT !.pc = "done", !.code = "ok",
                           !.newBalance = IF handler = "incrementOnly"
                                          THEN pdoc.userPoints
                                          ELSE pdoc.allTimePoints]]
  /\ UNCHANGED <<pdoc, today, vars, convVars, lbVars, retryVars, topupVars, likeVars>>

\* Midnight (UTC) passes.
DayPasses ==
  /\ today < MaxDay
  /\ today' = today + 1
  /\ UNCHANGED <<pdoc, presp, vars, convVars, lbVars, retryVars, topupVars, likeVars>>

\* The path as the server answers it.
PointsNext ==
  \/ \E k \in PointSlots : PtStart(k)
  \/ \E k \in PointSlots : PtVerify(k, Served)
  \/ \E k \in PointSlots : PtSet(k)
  \/ \E k \in PointSlots : PtReadBack(k, Served)
  \/ DayPasses

PointsSpec == PointsInit /\ [][PointsNext]_pointsVars

\* C28: a POST /api/update-points answered with success for a valid delta d
\* has added d to allTimePoints and to the dailyPoints of the day, and has
\* set lastQuizDate to the day and streakCount to at least 1 or to the value
\* of a same-day record.
C28_ServedByUpgradedHandler ==
  \A k \in PointSlots :
    presp[k].code = "ok" =>
      LET b == presp[k].before
          a == presp[k].after
      IN /\ a.allTimePoints = b.allTimePoints + presp[k].delta
         /\ a.dailyPoints =
              (IF b.lastQuizDate = presp[k].day THEN b.dailyPoints ELSE 0)
              + presp[k].delta
         /\ a.lastQuizDate = presp[k].day
         /\ a.streakCount >= 1 \/ b.lastQuizDate = presp[k].day

\* The second handler run on its own: documents it may find, any day of the
\* clock, and its requests.
StreakInit ==
  /\ pdoc \in {NoPointsDoc} \cup
       {[exists |-> TRUE, userPoints |-> 3, allTimePoints |-> 3, dailyPoints |-> 2,
         streakCount |-> s, lastQuizDate |-> l] :
          s \in {0, 2}, l \in 0..MaxDay}
  /\ today \in Days
  /\ presp = [k \in PointSlots |-> NoPointsResp]
  /\ LedgerOff /\ ConvOff /\ LbOff
  /\ RetryOff /\ TopupOff /\ LikeOff

StreakNext ==
  \/ \E k \in PointSlots : PtStart(k)
  \/ \E k \in PointSlots : PtVerify(k, Registrations[2])
  \/ \E k \in PointSlots : PtTxRead(k)
  \/ \E k \in PointSlots : PtTxCommit(k)
  \/ \E k \in PointSlots : PtTxRetry(k)
  \/ \E k \in PointSlots : PtReadBack(k, Registrations[2])
  \/ DayPasses

StreakSpec == StreakInit /\ [][StreakNext]_pointsVars

\* C29: for a valid delta d the transactional handler leaves streakCount as
\* it was and adds d to dailyPoints when lastQuizDate is today; adds 1 to
\* streakCount and sets dailyPoints to d when lastQuizDate is the day before;
\* sets streakCount to 1 and dailyPoints to d otherwise; always adds d to
\* allTimePoints and sets lastQuizDate to today; streakCount is at least 1
\* afterwards unless the document had a record of the same day.
C29_StreakTransition ==
  \A k \in PointSlots :
    (presp[k].pc = "get" \/ presp[k].code = "ok") =>
      LET b == presp[k].before
          a == presp[k].after
          d == presp[k].delta
          day == presp[k].day
      IN /\ ValidDelta(d)
         /\ b.lastQuizDate = day
              => a.streakCount = b.streakCount /\ a.dailyPoints = b.dailyPoints + d
         /\ (b.lastQuizDate # 0 /\ b.lastQuizDate + 1 = day)
              => a.streakCount = b.streakCount + 1 /\ a.dailyPoints = d
         /\ (b.lastQuizDate # day /\ (b.lastQuizDate = 0 \/ b.lastQuizDate + 1 # day))
              => a.streakCount = 1 /\ a.dailyPoints = d
         /\ a.allTimePoints = b.allTimePoints + d
         /\ a.lastQuizDate = day
         /\ b.lastQuizDate # day => a.streakCount >= 1

\* A quiz on the day after the last one: the streak grown to 3 from 2.
C29_Witness ==
  \E k \in PointSlots :
    /\ presp[k].code = "ok"
    /\ presp[k].before.lastQuizDate + 1 = presp[k].day
    /\ presp[k].before.streakCount = 2
    /\ presp[k].after.streakCount = 3
    /\ presp[k].after.dailyPoints = presp[k].delta

\* -------------------------------------------------------- like toggle
\* POST /firebase-posts/like/:postId on the post "post", created with
\* likes: [] by /create; "nx" is an id no post has.
LikeSlots == 1..MaxLikes
PostIds == {"post", "nx"}
LikeTokens == {"valid", "invalid", "missing"}

LikeIdle == [pc |-> "idle", uid |-> "none", token |-> "none", post |-> "none",
             next |-> <<>>, stale |-> FALSE, resp |-> "none"]

LikeInit ==
  /\ likes = <<>>
  /\ lreq = [k \in LikeSlots |-> LikeIdle]
  /\ toggles = [u \in Users |-> 0]
  /\ LedgerOff /\ ConvOff /\ LbOff
  /\ RetryOff /\ TopupOff /\ PointsOff

\* likes.indexOf(uid); 0 stands for -1
IndexOf(list, uid) ==
  IF \E i \in 1..Len(list) : list[i] = uid
  THEN CHOOSE i \in 1..Len(list) : list[i] = uid /\ \A j \in 1..(i - 1) : list[j] # uid
  ELSE 0

\* likes.splice(index, 1)
Splice(list, index) ==
  [i \in 1..(Len(list) - 1) |-> IF i < index THEN list[i] ELSE list[i + 1]]

\* The uid pushed whether or not the list holds it.
ToggleAlwaysPush(list, uid) == Append(list, uid)

\* if (index === -1) likes.push(uid); else likes.splice(index, 1);
Toggle(list, uid) ==
  IF IndexOf(list, uid) = 0 THEN Append(list, uid)
  ELSE Splice(list, IndexOf(list, uid))

\* A client sends a like request; slot k serves the k-th request.  Only a
\* token the verifier accepts names a user; a request without token is
\* answered by verifyAuth at once.
LikeStart(k) ==
  /\ lreq[k].pc = "idle"
  /\ \A j \in LikeSlots : j < k => lreq[j].pc # "idle"
  /\ \E tok \in LikeTokens, post \in PostIds :
       \E u \in IF tok = "valid" THEN Users ELSE {"none"} :
         lreq' = [lreq EXCEPT ![k] =
           IF tok = "missing"
           THEN [LikeIdle EXCEPT !.pc = "done", !.resp = "401", !.token = tok,
                                 !.post = post]
           ELSE [LikeIdle EXCEPT !.pc = "verify", !.uid = u, !.token = tok,
                                 !.post = post]]
  /\ UNCHANGED <<likes, toggles, vars, convVars, lbVars, retryVars, topupVars, pointsVars>>

\* verifyAuth once admin.auth().verifyIdToken has settled
VerifyAuth(k) ==
  /\ lreq[k].pc = "verify"
  /\ lreq' = [lreq EXCEPT ![k] =
       IF lreq[k].token = "valid" THEN [@ EXCEPT !.pc = "handler"]
       ELSE [@ EXCEPT !.pc = "done", !.resp = "401"]]
  /\ UNCHANGED <<likes, toggles, vars, convVars, lbVars, retryVars, topupVars, pointsVars>>

\* db.runTransaction: the read of the post and the body.  A throw of the body
\* is answered with status 500.
LikeRead(k) ==
  /\ lreq[k].pc = "handler"
  /\ lreq' = [lreq EXCEPT ![k] =
       IF lreq[k].post # "post"
       THEN [@ EXCEPT !.pc = "done", !.resp = "500"]
       ELSE [@ EXCEPT !.pc = "commit", !.next = Toggle(likes, lreq[k].uid),
                      !.stale = FALSE]]
  /\ UNCHANGED <<likes, toggles, vars, convVars, lbVars, retryVars, topupVars, pointsVars>>

\* The commit of tx.update, accepted because the post was not written since
\* the read; the response reports success.
LikeCommit(k) ==
  /\ lreq[k].pc = "commit"
  /\ ~lreq[k].stale
  /\ likes' = lreq[k].next
  /\ toggles' = [toggles EXCEPT ![lreq[k].uid] = @ + 1]
  /\ lreq' = [j \in LikeSlots |->
       IF j = k THEN [lreq[k] EXCEPT !.pc = "done", !.resp = "ok"]
       ELSE IF lreq[j].pc = "commit" THEN [lreq[j] EXCEPT !.stale = TRUE]
       ELSE lreq[j]]
  /\ UNCHANGED <<vars, convVars, lbVars, retryVars, topupVars, pointsVars>>

\* The commit refused: the store runs the body again from its read.
LikeRetry(k) ==
  /\ lreq[k].pc = "commit"
  /\ lreq[k].stale
  /\ lreq' = [lreq EXCEPT ![k] = [@ EXCEPT !.pc = "handler", !.stale = FALSE]]
  /\ UNCHANGED <<likes, toggles, vars, convVars, lbVars, retryVars, topupVars, pointsVars>>

LikeNext ==
  \E k \in LikeSlots :
    \/ LikeStart(k)
    \/ VerifyAuth(k)
    \/ LikeRead(k)
    \/ LikeCommit(k)
    \/ LikeRetry(k)

LikeSpec == LikeInit /\ [][LikeNext]_likeVars

\* C30: in every state reached by toggle requests in any order and
\* interleaving, the likes list of the post holds no uid twice and holds the
\* uid of a user exactly when the toggles of that user answered with success
\* are odd in number: none is lost and two of them restore the membership.
C30_LikeParity ==
  /\ \A i, j \in 1..Len(likes) : i # j => likes[i] # likes[j]
  /\ \A u \in Users :
       (\E i \in 1..Len(likes) : likes[i] = u) <=> toggles[u] % 2 = 1

\* Two toggles of one user and one of the other, all answered: only the
\* other is in the list.
C30_Witness ==
  /\ \A k \in LikeSlots : lreq[k].pc = "done" /\ lreq[k].resp = "ok"
  /\ toggles["u1"] = 2
  /\ toggles["u2"] = 1
  /\ likes = <<"u2">>

====
